---------------------------- MODULE Spec2Model ----------------------------
(***************************************************************************)
(* A model of rio's ContextManager (src/rio/src/screen/context.rs): the    *)
(* registry of terminal contexts (tabs) with create/close/switch           *)
(* operations.                                                             *)
(*                                                                         *)
(* A Context is the triple (id, terminal, messenger).  ContextManager      *)
(* reads and writes only the id; terminal and messenger are handles it     *)
(* passes along untouched.  A Context is therefore represented by its id   *)
(* and the Vec<Context> by the sequence of ids.                            *)
(*                                                                         *)
(* The second half models the event loop of one context, Machine           *)
(* (src/rio/src/performer/mod.rs): the poll loop of Machine::spawn, the    *)
(* read cycle pty_read, the write cycle pty_write and the inbound drain    *)
(* should_keep_alive, together with the threads around it (the UI taking   *)
(* the terminal lock and sending messages).  Spec is the ContextManager    *)
(* alone; MachineSpec is the event loop alone.                             *)
(***************************************************************************)
EXTENDS Integers, Sequences, FiniteSets, TLC

\* ------------------------------------------------------------------ bounds

\* The largest id add_context may hand out in the model (usize is unbounded
\* for every run a model checker can explore).
MaxId == 4

\* The largest capacity start_with_capacity / increase_capacity produce.
MaxCapacity == 3

\* The number of bytes the child writes to the pty over a run.
MaxBytes == 3

\* The number of messages sent on the inbound channel over a run, and the
\* number of input bytes they carry in total.
MaxMsgs == 2
MaxInput == 2

\* The number of events one poll() hands back.
MaxEvents == 2

\* READ_BUFFER_SIZE (0x10_0000 in the source) and MAX_LOCKED_READ (u16::MAX
\* in the source), scaled down keeping MAX_LOCKED_READ < READ_BUFFER_SIZE.
READ_BUFFER_SIZE == 3
MAX_LOCKED_READ == 2

\* ------------------------------------------------------- program constants

DEFAULT_CONTEXT_CAPACITY == 10

PIPE_RECV == 0
PIPE_SEND == 1
PIPE_PTY == 2

\* ------------------------------------------------------------------- state

VARIABLES
    contexts,   \* ContextManager.contexts: Vec<Context>, as the sequence of ids
    current,    \* ContextManager.current: ContextId
    capacity,   \* ContextManager.capacity: usize
    panicked,   \* TRUE once an operation has panicked (the thread unwinds)
    ret,        \* Option: the id of the context the last current()/current_mut() returned
    lastOp,     \* history: the call that produced this state, with its arguments
    assigned,   \* history: every id a context of this manager has been created with
    pre         \* history: the manager as it was when the call in lastOp was made

cmVars == <<contexts, current, capacity, panicked, ret, lastOp, assigned, pre>>

VARIABLES
    pc,             \* where the event loop of Machine::spawn stands
    events,         \* the events of the current poll() not yet handled, head first
    write_list,     \* State.write_list: VecDeque of chunks
    writing,        \* State.writing: Option<Writing>
    taken,          \* pty_write's local `current`: the Writing taken out of State
    sync_timeout,   \* parser.sync_timeout() is Some
    sync_bytes,     \* parser.sync_bytes_count()
    unprocessed,    \* pty_read's local
    processed,      \* pty_read's local
    buf,            \* the read buffer of Machine::spawn
    lease,          \* pty_read's _terminal_lease is held
    terminal_lock,  \* who holds the terminal's data lock: "free", "loop" or "ui"
    channel,        \* the messages sent and not yet received, oldest first
    registered,     \* the sources registered with the poller
    pty_interest,   \* the interest the pty is registered with
    readLog,        \* history: every byte pty reads have returned, in order
    parsed,         \* history: every byte handed to parser.advance, in order
    ptyIn,          \* history: every byte pty writes have accepted, in order
    enqueued,       \* history: the bytes of every Input pushed on write_list, in order
    nsent,          \* history: the number of messages sent so far
    ninput,         \* history: the number of input bytes sent so far
    wakeup,         \* history: Wakeup events sent since the loop last took up an event
    exitCause,      \* history: why the loop left 'event_loop ("none" while it runs)
    readResult,     \* history: what the pty_read for the event just handled returned
    grid_size,      \* the dimensions of the terminal grid
    pty_size,       \* the window size the pty was last given
    lastStep        \* history: the last step the loop took

machineVars ==
    <<pc, events, write_list, writing, taken, sync_timeout, sync_bytes,
      unprocessed, processed, buf, lease, terminal_lock, channel, registered,
      pty_interest,
      readLog, parsed, ptyIn, enqueued, nsent, ninput, wakeup, exitCause,
      readResult, grid_size, pty_size, lastStep>>

vars == <<cmVars, machineVars>>

\* ------------------------------------------------------------ Rust helpers

\* Option<T>
None == <<>>
Some(x) == <<x>>

\* v[i] on a Vec (0-based); None stands for the index-out-of-bounds panic.
Index(v, i) == IF i < Len(v) THEN Some(v[i + 1]) ELSE None

\* Vec::remove(idx) (0-based, idx < len): the elements after idx shift left.
remove(v, idx) == SubSeq(v, 1, idx) \o SubSeq(v, idx + 2, Len(v))

\* Vec::push
push(v, x) == Append(v, x)

\* The ids a caller may pass: every id the model can hold, and one beyond.
ContextIds == 0 .. (MaxId + 1)

Op(name, id, redirect, ok) ==
    [op |-> name, id |-> id, redirect |-> redirect, ok |-> ok]

\* The manager's fields (and the ids given out so far) at the time of a call.
Snapshot ==
    [contexts |-> contexts, current |-> current, capacity |-> capacity,
     assigned |-> assigned]

\* What every call records: itself, and the state it was made in.  A call on
\* the manager does not touch the event loop of a context.
Record(op) == lastOp' = op /\ pre' = Snapshot /\ UNCHANGED machineVars

\* ------------------------------------------------------- pure ContextManager

\* ContextManager::len
len(ctxs) == Len(ctxs)

\* ContextManager::contains: contexts.iter().any(|i| i.id == context_id)
contains(ctxs, context_id) == \E i \in 1 .. Len(ctxs) : ctxs[i] = context_id

\* ContextManager::position: contexts.iter().position(|t| t.id == context_id),
\* the 0-based index of the first match.
position(ctxs, context_id) ==
    IF \E i \in 1 .. Len(ctxs) : ctxs[i] = context_id
    THEN Some((CHOOSE i \in 1 .. Len(ctxs) :
                  /\ ctxs[i] = context_id
                  /\ \A j \in 1 .. (i - 1) : ctxs[j] # context_id) - 1)
    ELSE None

\* ContextManager::current_id
current_id == current

\* What switch_to_next makes of `current`, as a function of the list and of
\* `current`: the id right of the current position, else the first id; and
\* `current` itself when no context has it.
switch_to_next_id(ctxs, cur) ==
    LET current_position == position(ctxs, cur) IN
    IF current_position # None
    THEN LET right == SubSeq(ctxs, current_position[1] + 2, Len(ctxs))
         IN IF right # <<>> THEN right[1] ELSE ctxs[1]
    ELSE cur

\* ---------------------------------------------------------------- mutations
\* Each operator below is one of the operations further down with a single
\* plausible slip.  None of them is part of Next; they serve to show that a
\* property depends on the line it is about.

\* set_current without the contains() check.
set_current_unchecked(context_id) ==
    /\ ~panicked
    /\ current' = context_id
    /\ ret' = None
    /\ Record(Op("set_current", context_id, FALSE, TRUE))
    /\ UNCHANGED <<contexts, capacity, panicked, assigned>>

\* close_context without the `len() <= 1` early return.
close_context_no_floor(context_id) ==
    /\ ~panicked
    /\ LET idx == position(contexts, context_id) IN
       IF idx # None
       THEN /\ contexts' = remove(contexts, idx[1])
            /\ current' = IF Len(contexts') > 0
                          THEN contexts'[Len(contexts')]
                          ELSE current
       ELSE UNCHANGED <<contexts, current>>
    /\ ret' = None
    /\ Record(Op("close_context", context_id, FALSE, TRUE))
    /\ UNCHANGED <<capacity, panicked, assigned>>

\* close_context whose early return names the surviving context instead of 0.
close_context_keep_survivor(context_id) ==
    /\ ~panicked
    /\ IF Len(contexts) <= 1
       THEN /\ current' = contexts[1]
            /\ contexts' = contexts
       ELSE LET idx == position(contexts, context_id) IN
            IF idx # None
            THEN /\ contexts' = remove(contexts, idx[1])
                 /\ current' = IF Len(contexts') > 0
                               THEN contexts'[Len(contexts')]
                               ELSE current
            ELSE UNCHANGED <<contexts, current>>
    /\ ret' = None
    /\ Record(Op("close_context", context_id, FALSE, TRUE))
    /\ UNCHANGED <<capacity, panicked, assigned>>

\* close_context that moves `current` only when the closed context was current.
close_context_if_current(context_id) ==
    /\ ~panicked
    /\ IF Len(contexts) <= 1
       THEN /\ current' = 0
            /\ contexts' = contexts
       ELSE LET idx == position(contexts, context_id) IN
            IF idx # None
            THEN /\ contexts' = remove(contexts, idx[1])
                 /\ current' = IF Len(contexts') > 0 /\ current = context_id
                               THEN contexts'[Len(contexts')]
                               ELSE current
            ELSE UNCHANGED <<contexts, current>>
    /\ ret' = None
    /\ Record(Op("close_context", context_id, FALSE, TRUE))
    /\ UNCHANGED <<capacity, panicked, assigned>>

\* add_context with `size <= self.capacity`.
add_context_le_capacity(redirect, ok) ==
    /\ ~panicked
    /\ LET size == Len(contexts) IN
       IF size <= capacity
       THEN LET last_context == contexts[size]
                new_context_id == last_context + 1
            IN /\ new_context_id <= MaxId
               /\ IF ok
                  THEN /\ contexts' = push(contexts, new_context_id)
                       /\ current' = IF redirect THEN new_context_id ELSE current
                       /\ assigned' = assigned \cup {new_context_id}
                  ELSE UNCHANGED <<contexts, current, assigned>>
       ELSE UNCHANGED <<contexts, current, assigned>>
    /\ ret' = None
    /\ Record(Op("add_context", 0, redirect, ok))
    /\ UNCHANGED <<capacity, panicked>>

\* add_context that redirects before it looks at the capacity.
add_context_redirect_first(redirect, ok) ==
    /\ ~panicked
    /\ LET size == Len(contexts)
           last_context == contexts[size]
           new_context_id == last_context + 1
       IN
       IF size < capacity
       THEN /\ new_context_id <= MaxId
            /\ IF ok
               THEN /\ contexts' = push(contexts, new_context_id)
                    /\ current' = IF redirect THEN new_context_id ELSE current
                    /\ assigned' = assigned \cup {new_context_id}
               ELSE UNCHANGED <<contexts, current, assigned>>
       ELSE /\ current' = IF redirect THEN new_context_id ELSE current
            /\ UNCHANGED <<contexts, assigned>>
    /\ ret' = None
    /\ Record(Op("add_context", 0, redirect, ok))
    /\ UNCHANGED <<capacity, panicked>>

\* add_context that takes the new id from the length of the list.
add_context_id_from_len(redirect, ok) ==
    /\ ~panicked
    /\ LET size == Len(contexts) IN
       IF size < capacity
       THEN LET new_context_id == size
            IN /\ new_context_id <= MaxId
               /\ IF ok
                  THEN /\ contexts' = push(contexts, new_context_id)
                       /\ current' = IF redirect THEN new_context_id ELSE current
                       /\ assigned' = assigned \cup {new_context_id}
                  ELSE UNCHANGED <<contexts, current, assigned>>
       ELSE UNCHANGED <<contexts, current, assigned>>
    /\ ret' = None
    /\ Record(Op("add_context", 0, redirect, ok))
    /\ UNCHANGED <<capacity, panicked>>

\* add_context that puts the new context at the front of the list.
add_context_push_front(redirect, ok) ==
    /\ ~panicked
    /\ LET size == Len(contexts) IN
       IF size < capacity
       THEN LET last_context == contexts[size]
                new_context_id == last_context + 1
            IN /\ new_context_id <= MaxId
               /\ IF ok
                  THEN /\ contexts' = <<new_context_id>> \o contexts
                       /\ current' = IF redirect THEN new_context_id ELSE current
                       /\ assigned' = assigned \cup {new_context_id}
                  ELSE UNCHANGED <<contexts, current, assigned>>
       ELSE UNCHANGED <<contexts, current, assigned>>
    /\ ret' = None
    /\ Record(Op("add_context", 0, redirect, ok))
    /\ UNCHANGED <<capacity, panicked>>

\* close_context that selects the last context also when no context has the id.
close_context_reselect_last(context_id) ==
    /\ ~panicked
    /\ IF Len(contexts) <= 1
       THEN /\ current' = 0
            /\ contexts' = contexts
       ELSE LET idx == position(contexts, context_id) IN
            /\ contexts' = IF idx # None THEN remove(contexts, idx[1]) ELSE contexts
            /\ current' = IF Len(contexts') > 0
                          THEN contexts'[Len(contexts')]
                          ELSE current
    /\ ret' = None
    /\ Record(Op("close_context", context_id, FALSE, TRUE))
    /\ UNCHANGED <<capacity, panicked, assigned>>

\* start that numbers the first context 1.
start_from_one(cap) ==
    /\ contexts = <<1>>
    /\ current = 1
    /\ capacity = cap
    /\ panicked = FALSE
    /\ ret = None
    /\ lastOp = Op("start", 0, FALSE, TRUE)
    /\ assigned = {1}
    /\ pre = [contexts |-> <<1>>, current |-> 1, capacity |-> cap, assigned |-> {1}]

\* switch_to_next that stays on the last context instead of wrapping.
switch_to_next_no_wrap ==
    /\ ~panicked
    /\ LET current_position == position(contexts, current) IN
       IF current_position # None
       THEN LET right == SubSeq(contexts, current_position[1] + 2, Len(contexts))
            IN current' = IF right # <<>> THEN right[1] ELSE current
       ELSE current' = current
    /\ ret' = None
    /\ Record(Op("switch_to_next", 0, FALSE, TRUE))
    /\ UNCHANGED <<contexts, capacity, panicked, assigned>>

\* add_context that applies redirect after the match on create_context's result.
add_context_redirect_on_error(redirect, ok) ==
    /\ ~panicked
    /\ LET size == Len(contexts) IN
       IF size < capacity
       THEN LET last_context == contexts[size]
                new_context_id == last_context + 1
            IN /\ new_context_id <= MaxId
               /\ current' = IF redirect THEN new_context_id ELSE current
               /\ IF ok
                  THEN /\ contexts' = push(contexts, new_context_id)
                       /\ assigned' = assigned \cup {new_context_id}
                  ELSE UNCHANGED <<contexts, assigned>>
       ELSE UNCHANGED <<contexts, current, assigned>>
    /\ ret' = None
    /\ Record(Op("add_context", 0, redirect, ok))
    /\ UNCHANGED <<capacity, panicked>>

\* ------------------------------------------------------------------ actions

\* ContextManager::start (capacity DEFAULT_CONTEXT_CAPACITY) and
\* ContextManager::start_with_capacity (capacity given): one context, id 0.
start(cap) ==
    /\ contexts = <<0>>
    /\ current = 0
    /\ capacity = cap
    /\ panicked = FALSE
    /\ ret = None
    /\ lastOp = Op("start", 0, FALSE, TRUE)
    /\ assigned = {0}
    /\ pre = [contexts |-> <<0>>, current |-> 0, capacity |-> cap, assigned |-> {0}]

\* The dimensions the terminal and the pty are created with, and the ones a
\* Msg::Resize asks for.
InitialSize == "initial"
RequestedSize == "requested"

\* The interest pty.register can have registered the pty with: readable, or
\* readable and writable.
PtyInterests == {{"READ"}, {"READ", "WRITE"}}

\* Machine::new followed by the prologue of Machine::spawn: an empty State, a
\* zeroed read buffer, the pipe ends, the waker and the pty registered with
\* the poller, and the loop about to poll for the first time.
Machine_new ==
    /\ pc = "poll"
    /\ events = <<>>
    /\ write_list = <<>>
    /\ writing = None
    /\ taken = None
    /\ sync_timeout = FALSE
    /\ sync_bytes = 0
    /\ unprocessed = 0
    /\ processed = 0
    /\ buf = [i \in 1 .. READ_BUFFER_SIZE |-> 0]
    /\ lease = FALSE
    /\ terminal_lock = "free"
    /\ channel = <<>>
    /\ registered = {"mio_receiver", "mio_sender", "waker", "pty"}
    /\ pty_interest \in PtyInterests
    /\ readLog = <<>>
    /\ parsed = <<>>
    /\ ptyIn = <<>>
    /\ enqueued = <<>>
    /\ nsent = 0
    /\ ninput = 0
    /\ wakeup = 0
    /\ exitCause = "none"
    /\ readResult = "none"
    /\ grid_size = InitialSize
    /\ pty_size = InitialSize
    /\ lastStep = "new"

Init ==
    /\ \E cap \in (1 .. MaxCapacity) \cup {DEFAULT_CONTEXT_CAPACITY} : start(cap)
    /\ Machine_new

\* ContextManager::increase_capacity
increase_capacity(inc_val) ==
    /\ ~panicked
    /\ capacity + inc_val <= MaxCapacity
    /\ capacity' = capacity + inc_val
    /\ ret' = None
    /\ Record(Op("increase_capacity", inc_val, FALSE, TRUE))
    /\ UNCHANGED <<contexts, current, panicked, assigned>>

\* ContextManager::set_current
set_current(context_id) ==
    /\ ~panicked
    /\ current' = IF contains(contexts, context_id) THEN context_id ELSE current
    /\ ret' = None
    /\ Record(Op("set_current", context_id, FALSE, TRUE))
    /\ UNCHANGED <<contexts, capacity, panicked, assigned>>

\* ContextManager::close_context
close_context(context_id) ==
    /\ ~panicked
    /\ IF Len(contexts) <= 1
       THEN /\ current' = 0
            /\ contexts' = contexts
       ELSE LET idx == position(contexts, context_id) IN
            IF idx # None
            THEN /\ contexts' = remove(contexts, idx[1])
                 /\ current' = IF Len(contexts') > 0
                               THEN contexts'[Len(contexts')]
                               ELSE current
            ELSE UNCHANGED <<contexts, current>>
    /\ ret' = None
    /\ Record(Op("close_context", context_id, FALSE, TRUE))
    /\ UNCHANGED <<capacity, panicked, assigned>>

\* ContextManager::current: &self.contexts[self.current]
Current ==
    /\ ~panicked
    /\ LET r == Index(contexts, current) IN
       /\ ret' = r
       /\ panicked' = (r = None)
    /\ Record(Op("current", 0, FALSE, TRUE))
    /\ UNCHANGED <<contexts, current, capacity, assigned>>

\* ContextManager::current_mut: &mut self.contexts[self.current]
CurrentMut ==
    /\ ~panicked
    /\ LET r == Index(contexts, current) IN
       /\ ret' = r
       /\ panicked' = (r = None)
    /\ Record(Op("current_mut", 0, FALSE, TRUE))
    /\ UNCHANGED <<contexts, current, capacity, assigned>>

\* ContextManager::switch_to_next
switch_to_next ==
    /\ ~panicked
    /\ LET current_position == position(contexts, current) IN
       IF current_position # None
       THEN LET left  == SubSeq(contexts, 1, current_position[1] + 1)
                right == SubSeq(contexts, current_position[1] + 2, Len(contexts))
            IN current' = IF right # <<>> THEN right[1] ELSE left[1]
       ELSE current' = current
    /\ ret' = None
    /\ Record(Op("switch_to_next", 0, FALSE, TRUE))
    /\ UNCHANGED <<contexts, capacity, panicked, assigned>>

\* ContextManager::add_context.  ok is the outcome of create_context
\* (Machine::new can fail); redirect is the caller's flag.  The spawn, columns,
\* rows and cursor_state arguments only reach create_context.
add_context(redirect, ok) ==
    /\ ~panicked
    /\ LET size == Len(contexts) IN
       IF size < capacity
       THEN LET last_context == contexts[size]
                new_context_id == last_context + 1
            IN /\ new_context_id <= MaxId
               /\ IF ok
                  THEN /\ contexts' = push(contexts, new_context_id)
                       /\ current' = IF redirect THEN new_context_id ELSE current
                       /\ assigned' = assigned \cup {new_context_id}
                  ELSE UNCHANGED <<contexts, current, assigned>>
       ELSE UNCHANGED <<contexts, current, assigned>>
    /\ ret' = None
    /\ Record(Op("add_context", 0, redirect, ok))
    /\ UNCHANGED <<capacity, panicked>>

Next ==
    \/ \E inc_val \in 1 .. MaxCapacity : increase_capacity(inc_val)
    \/ \E context_id \in ContextIds : set_current(context_id)
    \/ \E context_id \in ContextIds : close_context(context_id)
    \/ Current
    \/ CurrentMut
    \/ switch_to_next
    \/ \E redirect \in BOOLEAN, ok \in BOOLEAN : add_context(redirect, ok)

Spec == Init /\ [][Next]_vars

\* ================================================================ Machine

sinkVars == <<write_list, writing, taken>>
parserVars == <<sync_timeout, sync_bytes, parsed>>
readVars == <<unprocessed, processed, buf, readLog>>
lockVars == <<lease, terminal_lock>>
chanVars == <<channel, nsent, ninput>>
sizeVars == <<grid_size, pty_size>>

\* The concatenation of a sequence of chunks.
RECURSIVE Flatten(_)
Flatten(chunks) ==
    IF chunks = <<>> THEN <<>> ELSE Head(chunks) \o Flatten(Tail(chunks))

\* ------------------------------------------------------------ State, Writing

\* Mutation of Writing::advance: the write offset stays where it was.
advance_nothing(w, n) == w

\* Writing::new
Writing_new(c) == [source |-> c, written |-> 0]

\* Writing::advance
advance(w, n) == [w EXCEPT !.written = @ + n]

\* Writing::remaining_bytes: &self.source[self.written..]
remaining_bytes(w) == SubSeq(w.source, w.written + 1, Len(w.source))

\* Writing::finished
finished(w) == w.written >= Len(w.source)

\* State::needs_write
needs_write == writing # None \/ write_list # <<>>

\* State::goto_next: writing = write_list.pop_front().map(Writing::new).
\* The pair <<writing, write_list>> after the call.
goto_next(wl) ==
    IF wl = <<>> THEN <<None, wl>> ELSE <<Some(Writing_new(Head(wl))), Tail(wl)>>

\* State::ensure_next: the pair <<writing, write_list>> after the call.
ensure_next(w, wl) == IF w = None THEN goto_next(wl) ELSE <<w, wl>>

\* ------------------------------------------------------------------ parser
\* handler::ParserProcessor is outside the modelled files.  advance() is a
\* black box that may start, continue or end a synchronized update at any
\* byte: after k more bytes it either is outside a synchronized update, with
\* nothing buffered, or inside one, with at most the old buffer plus the k
\* bytes buffered.
ParserOutcomes(k) ==
    {<<FALSE, 0>>} \cup {<<TRUE, b>> : b \in 0 .. (sync_bytes + k)}

\* ------------------------------------------------------------------- events

\* The tokens the pty reports (the pty is registered under PIPE_PTY).
read_token == PIPE_PTY
write_token == PIPE_PTY
child_event_token == PIPE_PTY + 1

Event(token, read_closed, readable, writable) ==
    [token |-> token, read_closed |-> read_closed,
     readable |-> readable, writable |-> writable]

\* What the poller can report for one source.
EventKinds ==
    {Event(PIPE_RECV, c, TRUE, FALSE) : c \in BOOLEAN}
        \cup {Event(PIPE_SEND, FALSE, TRUE, FALSE)}
        \cup {Event(child_event_token, FALSE, TRUE, FALSE)}
        \cup {Event(PIPE_PTY, FALSE, TRUE, FALSE),
              Event(PIPE_PTY, FALSE, FALSE, TRUE),
              Event(PIPE_PTY, FALSE, TRUE, TRUE)}

\* What one poll() can hand back: one to MaxEvents events.
Batches == UNION {[1 .. n -> EventKinds] : n \in 1 .. MaxEvents}

\* ----------------------------------------------------------------- messages

Input(bytes) == [type |-> "Input", bytes |-> bytes]
Resize == [type |-> "Resize", bytes |-> <<>>, size |-> RequestedSize]
Shutdown == [type |-> "Shutdown", bytes |-> <<>>]

\* Mutation of should_keep_alive: Shutdown is skipped like Resize.
RECURSIVE should_keep_alive_ignore_shutdown(_, _)
should_keep_alive_ignore_shutdown(ch, wl) ==
    IF ch = <<>>
    THEN [channel |-> ch, write_list |-> wl, alive |-> TRUE]
    ELSE LET msg == Head(ch) IN
         IF msg.type = "Input"
         THEN should_keep_alive_ignore_shutdown(Tail(ch), Append(wl, msg.bytes))
         ELSE should_keep_alive_ignore_shutdown(Tail(ch), wl)

\* The body of should_keep_alive: `while let Ok(msg) = receiver.try_recv()`.
\* Input is pushed on write_list, Resize does nothing, Shutdown returns false
\* at once.  The channel, the write_list and the result after the call.
RECURSIVE should_keep_alive(_, _)
should_keep_alive(ch, wl) ==
    IF ch = <<>>
    THEN [channel |-> ch, write_list |-> wl, alive |-> TRUE]
    ELSE LET msg == Head(ch) IN
         IF msg.type = "Input"
         THEN should_keep_alive(Tail(ch), Append(wl, msg.bytes))
         ELSE IF msg.type = "Resize"
         THEN should_keep_alive(Tail(ch), wl)
         ELSE [channel |-> Tail(ch), write_list |-> wl, alive |-> FALSE]

\* -------------------------------------------------- threads around the loop

\* The UI thread takes the terminal with FairMutex::lock (sequencer: scroll,
\* render).  lock() first takes the `next` lock, which pty_read's lease holds
\* for the whole read cycle, then the data lock.
ui_lock ==
    /\ terminal_lock = "free"
    /\ ~lease
    /\ terminal_lock' = "ui"
    /\ UNCHANGED <<cmVars, sizeVars, pc, events, sinkVars, parserVars, readVars, lease,
                   chanVars, registered, pty_interest, ptyIn, enqueued, wakeup, readResult, exitCause, lastStep>>

\* The UI thread drops its guard.
ui_unlock ==
    /\ terminal_lock = "ui"
    /\ terminal_lock' = "free"
    /\ UNCHANGED <<cmVars, sizeVars, pc, events, sinkVars, parserVars, readVars, lease,
                   chanVars, registered, pty_interest, ptyIn, enqueued, wakeup, readResult, exitCause, lastStep>>

\* A sender puts a message on the inbound channel.  Once the loop has
\* returned, the Machine and with it the receiver are dropped, and send fails.
Send(msg) ==
    /\ pc # "done"
    /\ nsent < MaxMsgs
    /\ channel' = Append(channel, msg)
    /\ nsent' = nsent + 1
    /\ ninput' = ninput + Len(msg.bytes)
    /\ UNCHANGED <<cmVars, sizeVars, pc, events, sinkVars, parserVars, readVars, lockVars,
                   registered, pty_interest, ptyIn, enqueued, wakeup, readResult, exitCause,
                   lastStep>>

\* Messenger::send_bytes: Msg::Input with n fresh bytes (numbered in the order
\* they are sent).
send_input(n) ==
    /\ ninput + n <= MaxInput
    /\ Send(Input([i \in 1 .. n |-> ninput + i]))

send_resize == Send(Resize)

send_shutdown == Send(Shutdown)

\* ------------------------------------------------------------ the poll loop

\* Go on to the next event of the batch.
NextEvent == pc' = "dispatch" /\ events' = Tail(events)

\* poll() returns with events.  The pty is reported writable only when it is
\* registered with that interest.
poll ==
    /\ pc = "poll"
    /\ \E batch \in Batches :
          /\ \A i \in 1 .. Len(batch) :
                (batch[i].token = write_token /\ batch[i].writable)
                    => "WRITE" \in pty_interest
          /\ events' = batch
    /\ pc' = "dispatch"
    /\ lastStep' = "poll"
    /\ UNCHANGED <<cmVars, sizeVars, sinkVars, parserVars, readVars, lockVars, chanVars,
                   registered, pty_interest, ptyIn, enqueued, wakeup, readResult, exitCause>>

\* Mutation of poll_timeout: no Wakeup is sent.
poll_timeout_no_wakeup ==
    /\ pc = "poll"
    /\ sync_timeout
    /\ terminal_lock = "free"
    /\ sync_timeout' = FALSE
    /\ sync_bytes' = 0
    /\ wakeup' = 0
    /\ UNCHANGED readResult
    /\ lastStep' = "poll_timeout"
    /\ UNCHANGED <<cmVars, sizeVars, pc, events, sinkVars, parsed, readVars, lockVars,
                   chanVars, registered, pty_interest, ptyIn, enqueued, exitCause>>

\* poll() returns with no event: the synchronized-update timeout was reached.
\* parser.stop_sync runs under terminal.lock() (which waits for the lock), a
\* Wakeup is sent and the loop polls again.
poll_timeout ==
    /\ pc = "poll"
    /\ sync_timeout
    /\ terminal_lock = "free"
    /\ sync_timeout' = FALSE
    /\ sync_bytes' = 0
    /\ wakeup' = 1
    /\ UNCHANGED readResult
    /\ lastStep' = "poll_timeout"
    /\ UNCHANGED <<cmVars, sizeVars, pc, events, sinkVars, parsed, readVars, lockVars,
                   chanVars, registered, pty_interest, ptyIn, enqueued, exitCause>>

\* poll() fails with an error other than Interrupted: panic!.  (Interrupted
\* is `continue`, which changes nothing.)
poll_error ==
    /\ pc = "poll"
    /\ pc' = "panic"
    /\ lastStep' = "poll_error"
    /\ UNCHANGED <<cmVars, sizeVars, events, sinkVars, parserVars, readVars, lockVars,
                   chanVars, registered, pty_interest, ptyIn, enqueued, wakeup, readResult, exitCause>>

\* Mutation of handle_read_closed: the arm goes on with the next event.
handle_read_closed_ignored ==
    /\ pc = "dispatch"
    /\ events # <<>>
    /\ Head(events).token = PIPE_RECV
    /\ Head(events).read_closed
    /\ NextEvent
    /\ wakeup' = 0
    /\ readResult' = "none"
    /\ lastStep' = "read_closed"
    /\ UNCHANGED <<cmVars, sizeVars, sinkVars, parserVars, readVars, lockVars,
                   chanVars, registered, pty_interest, ptyIn, enqueued, exitCause>>

\* `PIPE_RECV if event.is_read_closed()`: break 'event_loop.
handle_read_closed ==
    /\ pc = "dispatch"
    /\ events # <<>>
    /\ Head(events).token = PIPE_RECV
    /\ Head(events).read_closed
    /\ pc' = "exit"
    /\ exitCause' = "read_closed"
    /\ wakeup' = 0
    /\ readResult' = "none"
    /\ lastStep' = "read_closed"
    /\ UNCHANGED <<cmVars, sizeVars, events, sinkVars, parserVars, readVars, lockVars,
                   chanVars, registered, pty_interest, ptyIn, enqueued>>

\* `token == PIPE_SEND`: should_keep_alive; break 'event_loop when it is false.
handle_pipe_send ==
    /\ pc = "dispatch"
    /\ events # <<>>
    /\ Head(events).token = PIPE_SEND
    /\ LET r == should_keep_alive(channel, write_list) IN
       /\ channel' = r.channel
       /\ write_list' = r.write_list
       /\ enqueued' = enqueued \o
              Flatten(SubSeq(r.write_list, Len(write_list) + 1, Len(r.write_list)))
       /\ IF r.alive
          THEN NextEvent /\ UNCHANGED exitCause
          ELSE pc' = "exit" /\ exitCause' = "shutdown" /\ UNCHANGED events
    /\ wakeup' = 0
    /\ readResult' = "none"
    /\ lastStep' = "pipe_send"
    /\ UNCHANGED <<cmVars, sizeVars, writing, taken, parserVars, readVars, lockVars,
                   nsent, ninput, registered, pty_interest, ptyIn>>

\* The head of pty_read: the counters start at 0 and the lease is taken.
EnterRead ==
    /\ unprocessed' = 0
    /\ processed' = 0
    /\ lease' = TRUE
    /\ pc' = "read"

\* `token == self.pty.child_event_token()`: pty_read is called.
handle_child_event ==
    /\ pc = "dispatch"
    /\ events # <<>>
    /\ Head(events).token = child_event_token
    /\ EnterRead
    /\ wakeup' = 0
    /\ readResult' = "none"
    /\ lastStep' = "child_event"
    /\ UNCHANGED <<cmVars, sizeVars, events, sinkVars, parserVars, buf, readLog,
                   terminal_lock, chanVars, registered, pty_interest, ptyIn, enqueued,
                   exitCause>>

\* `token == read_token || token == write_token`: pty_read when the event is
\* readable, then the writable part.
handle_pty_event ==
    /\ pc = "dispatch"
    /\ events # <<>>
    /\ Head(events).token \in {read_token, write_token}
    /\ IF Head(events).readable
       THEN EnterRead
       ELSE pc' = "writable" /\ UNCHANGED <<unprocessed, processed, lease>>
    /\ wakeup' = 0
    /\ readResult' = "none"
    /\ lastStep' = "pty_event"
    /\ UNCHANGED <<cmVars, sizeVars, events, sinkVars, parserVars, buf, readLog,
                   terminal_lock, chanVars, registered, pty_interest, ptyIn, enqueued,
                   exitCause>>

\* `_ => ()`: here, PIPE_RECV without read_closed.
handle_other ==
    /\ pc = "dispatch"
    /\ events # <<>>
    /\ Head(events).token = PIPE_RECV
    /\ ~Head(events).read_closed
    /\ NextEvent
    /\ wakeup' = 0
    /\ readResult' = "none"
    /\ lastStep' = "other"
    /\ UNCHANGED <<cmVars, sizeVars, sinkVars, parserVars, readVars, lockVars, chanVars,
                   registered, pty_interest, ptyIn, enqueued, exitCause>>

\* After the last event: the interest is computed (the reregister call is
\* commented out in the source) and the loop polls again.
end_of_events ==
    /\ pc = "dispatch"
    /\ events = <<>>
    /\ pc' = "poll"
    /\ readResult' = "none"
    /\ lastStep' = "end_of_events"
    /\ UNCHANGED <<cmVars, sizeVars, events, sinkVars, parserVars, readVars,
                   lockVars, chanVars, registered, pty_interest, ptyIn, enqueued, wakeup,
                   exitCause>>

\* Mutation of exit_loop: after the deregistration the loop polls again.
exit_loop_restart ==
    /\ pc = "exit"
    /\ registered' = registered \ {"mio_receiver", "pty"}
    /\ UNCHANGED pty_interest
    /\ pc' = "poll"
    /\ lastStep' = "exit"
    /\ UNCHANGED <<cmVars, sizeVars, events, sinkVars, parserVars, readVars,
                   lockVars, chanVars, ptyIn, enqueued, wakeup, readResult,
                   exitCause>>

\* Mutation of exit_loop: the pty stays registered.
exit_loop_keep_pty ==
    /\ pc = "exit"
    /\ registered' = registered \ {"mio_receiver"}
    /\ UNCHANGED pty_interest
    /\ pc' = "done"
    /\ lastStep' = "exit"
    /\ UNCHANGED <<cmVars, sizeVars, events, sinkVars, parserVars, readVars,
                   lockVars, chanVars, ptyIn, enqueued, wakeup, readResult,
                   exitCause>>

\* After 'event_loop: the pipe receiver and the pty are deregistered, and the
\* Machine and its State are returned.
exit_loop ==
    /\ pc = "exit"
    /\ registered' = registered \ {"mio_receiver", "pty"}
    /\ UNCHANGED pty_interest
    /\ pc' = "done"
    /\ lastStep' = "exit"
    /\ UNCHANGED <<cmVars, sizeVars, events, sinkVars, parserVars, readVars, lockVars,
                   chanVars, ptyIn, enqueued, wakeup, readResult, exitCause>>

\* ------------------------------------------------------------------ pty_read

\* Mutation of ReadReturn: the terminal guard is not dropped.
ReadReturn_keep_lock(result, sent) ==
    /\ lease' = FALSE
    /\ readResult' = result
    /\ unprocessed' = 0
    /\ processed' = 0
    /\ lastStep' = IF Head(events).token = child_event_token THEN "child_done"
                   ELSE IF result = "ok" THEN "read_finish"
                   ELSE result
    /\ UNCHANGED terminal_lock
    /\ IF Head(events).token = child_event_token
       THEN /\ wakeup' = wakeup + sent + 1
            /\ NextEvent
            /\ UNCHANGED exitCause
       ELSE /\ wakeup' = wakeup + sent
            /\ IF result = "ok"
               THEN pc' = "writable" /\ UNCHANGED <<events, exitCause>>
               ELSE IF result = "eio"
               THEN NextEvent /\ UNCHANGED exitCause
               ELSE pc' = "exit" /\ exitCause' = "read_error" /\ UNCHANGED events

\* Mutation of ReadReturn: the pty arm breaks 'event_loop on EIO as on any
\* other error.
ReadReturn_eio_fatal(result, sent) ==
    /\ lease' = FALSE
    /\ readResult' = result
    /\ unprocessed' = 0
    /\ processed' = 0
    /\ lastStep' = IF Head(events).token = child_event_token THEN "child_done"
                   ELSE IF result = "ok" THEN "read_finish"
                   ELSE result
    /\ terminal_lock' = IF terminal_lock = "loop" THEN "free" ELSE terminal_lock
    /\ IF Head(events).token = child_event_token
       THEN /\ wakeup' = wakeup + sent + 1
            /\ NextEvent
            /\ UNCHANGED exitCause
       ELSE /\ wakeup' = wakeup + sent
            /\ IF result = "ok"
               THEN pc' = "writable" /\ UNCHANGED <<events, exitCause>>
               ELSE pc' = "exit" /\ exitCause' = "read_error" /\ UNCHANGED events

\* Mutation of Parse: the cycle goes on however much was processed.
Parse_no_limit ==
    /\ terminal_lock' = "loop"
    /\ parsed' = parsed \o SubSeq(buf, 1, unprocessed)
    /\ \E o \in ParserOutcomes(unprocessed) :
          sync_timeout' = o[1] /\ sync_bytes' = o[2]
    /\ processed' = processed + unprocessed
    /\ unprocessed' = 0
    /\ pc' = "read"

\* Mutation of Parse: unprocessed is not reset after the bytes were parsed.
Parse_keep_unprocessed ==
    /\ terminal_lock' = "loop"
    /\ parsed' = parsed \o SubSeq(buf, 1, unprocessed)
    /\ \E o \in ParserOutcomes(unprocessed) :
          sync_timeout' = o[1] /\ sync_bytes' = o[2]
    /\ processed' = processed + unprocessed
    /\ UNCHANGED unprocessed
    /\ pc' = IF processed' >= MAX_LOCKED_READ THEN "read_done" ELSE "read"

\* pty_read hands its result to the arm of 'event_loop that called it; its
\* terminal guard, its lease and its counters are dropped.  sent is the number
\* of Wakeup events pty_read itself sent.  The child-event arm ignores the result, sends
\* Wakeup and goes on with the next event (its `break` is commented out).
\* The pty arm goes on to the writable part on Ok, `continue`s on EIO and
\* breaks 'event_loop on any other error.
ReadReturn(result, sent) ==
    /\ lease' = FALSE
    /\ readResult' = result
    /\ unprocessed' = 0
    /\ processed' = 0
    /\ lastStep' = IF Head(events).token = child_event_token THEN "child_done"
                   ELSE IF result = "ok" THEN "read_finish"
                   ELSE result
    /\ terminal_lock' = IF terminal_lock = "loop" THEN "free" ELSE terminal_lock
    /\ IF Head(events).token = child_event_token
       THEN /\ wakeup' = wakeup + sent + 1
            /\ NextEvent
            /\ UNCHANGED exitCause
       ELSE /\ wakeup' = wakeup + sent
            /\ IF result = "ok"
               THEN pc' = "writable" /\ UNCHANGED <<events, exitCause>>
               ELSE IF result = "eio"
               THEN NextEvent /\ UNCHANGED exitCause
               ELSE pc' = "exit" /\ exitCause' = "read_error" /\ UNCHANGED events

\* reader().read(&mut buf[unprocessed..]) returns Ok(got), got > 0: the next
\* got bytes of the pty's output land behind the unprocessed ones.
pty_read_ok(got) ==
    /\ pc = "read"
    /\ got <= READ_BUFFER_SIZE - unprocessed
    /\ Len(readLog) + got <= MaxBytes
    /\ buf' = [i \in 1 .. READ_BUFFER_SIZE |->
                 IF i > unprocessed /\ i <= unprocessed + got
                 THEN Len(readLog) + (i - unprocessed)
                 ELSE buf[i]]
    /\ readLog' = readLog \o [i \in 1 .. got |-> Len(readLog) + i]
    /\ unprocessed' = unprocessed + got
    /\ pc' = "lock"
    /\ lastStep' = "read_ok"
    /\ UNCHANGED <<cmVars, sizeVars, events, sinkVars, parserVars, processed, lockVars,
                   chanVars, registered, pty_interest, ptyIn, enqueued, wakeup, readResult, exitCause>>

\* read returns Ok(0), or fails with WouldBlock or Interrupted: the cycle ends
\* when nothing is unprocessed, and goes on to parse otherwise.
pty_read_nothing(kind) ==
    /\ pc = "read"
    /\ pc' = IF unprocessed = 0 THEN "read_done" ELSE "lock"
    /\ lastStep' = kind
    /\ UNCHANGED <<cmVars, sizeVars, events, sinkVars, parserVars, readVars, lockVars,
                   chanVars, registered, pty_interest, ptyIn, enqueued, wakeup, readResult, exitCause>>

\* read fails with EIO ("eio") or another error ("other"): return Err(err).
pty_read_err(kind) ==
    /\ pc = "read"
    /\ ReadReturn(kind, 0)
    /\ UNCHANGED <<cmVars, sizeVars, sinkVars, parserVars, buf, readLog, chanVars,
                   registered, pty_interest, ptyIn, enqueued>>

\* With the terminal locked: every byte of buf[..unprocessed] goes to
\* parser.advance, processed += unprocessed, unprocessed = 0, and the cycle
\* ends once processed >= MAX_LOCKED_READ.
Parse ==
    /\ terminal_lock' = "loop"
    /\ parsed' = parsed \o SubSeq(buf, 1, unprocessed)
    /\ \E o \in ParserOutcomes(unprocessed) :
          sync_timeout' = o[1] /\ sync_bytes' = o[2]
    /\ processed' = processed + unprocessed
    /\ unprocessed' = 0
    /\ pc' = IF processed' >= MAX_LOCKED_READ THEN "read_done" ELSE "read"

\* Mutation of pty_read_lock: the bytes are parsed whoever holds the terminal.
pty_read_lock_ignore_try ==
    /\ pc = "lock"
    /\ Parse
    /\ lastStep' = "lock"
    /\ UNCHANGED <<cmVars, sizeVars, events, sinkVars, buf, readLog, lease, chanVars,
                   registered, pty_interest, ptyIn, enqueued, wakeup, readResult, exitCause>>

\* "Attempt to lock the terminal": the guard already held, or try_lock_unfair;
\* when that fails, block in lock_unfair if the buffer is full, else `continue`.
pty_read_lock ==
    /\ pc = "lock"
    /\ IF terminal_lock \in {"loop", "free"}
       THEN Parse
       ELSE /\ pc' = IF unprocessed >= READ_BUFFER_SIZE THEN "lock_unfair" ELSE "read"
            /\ UNCHANGED <<terminal_lock, parserVars, processed, unprocessed>>
    /\ lastStep' = "lock"
    /\ UNCHANGED <<cmVars, sizeVars, events, sinkVars, buf, readLog, lease, chanVars,
                   registered, pty_interest, ptyIn, enqueued, wakeup, readResult, exitCause>>

\* lock_unfair returns once the other holder has let go.
pty_read_lock_unfair ==
    /\ pc = "lock_unfair"
    /\ terminal_lock = "free"
    /\ Parse
    /\ lastStep' = "lock_unfair"
    /\ UNCHANGED <<cmVars, sizeVars, events, sinkVars, buf, readLog, lease, chanVars,
                   registered, pty_interest, ptyIn, enqueued, wakeup, readResult, exitCause>>

\* Mutation of pty_read_finish: Wakeup is sent after every cycle.
pty_read_finish_always_wakeup ==
    /\ pc = "read_done"
    /\ ReadReturn("ok", 1)
    /\ UNCHANGED <<cmVars, sizeVars, sinkVars, parserVars, buf, readLog, chanVars,
                   registered, pty_interest, ptyIn, enqueued>>

\* After the loop: "Queue terminal redraw unless all processed bytes were
\* synchronized", then Ok(()).
pty_read_finish ==
    /\ pc = "read_done"
    /\ ReadReturn("ok", IF sync_bytes < processed /\ processed > 0 THEN 1 ELSE 0)
    /\ UNCHANGED <<cmVars, sizeVars, sinkVars, parserVars, buf, readLog, chanVars,
                   registered, pty_interest, ptyIn, enqueued>>

\* ----------------------------------------------------------------- pty_write

\* `if event.is_writable()`: pty_write starts with ensure_next and the first
\* take_current; with nothing to write it returns Ok at once.
pty_write_enter ==
    /\ pc = "writable"
    /\ IF Head(events).writable
       THEN LET e == ensure_next(writing, write_list) IN
            /\ taken' = e[1]
            /\ writing' = None
            /\ write_list' = e[2]
            /\ IF e[1] = None THEN NextEvent ELSE pc' = "write" /\ UNCHANGED events
       ELSE NextEvent /\ UNCHANGED sinkVars
    /\ lastStep' = "write_enter"
    /\ UNCHANGED <<cmVars, sizeVars, parserVars, readVars, lockVars, chanVars, registered, pty_interest,
                   ptyIn, enqueued, wakeup, readResult, exitCause>>

\* writer().write(current.remaining_bytes()) returns Ok(n).
pty_write_ok(n) ==
    /\ pc = "write"
    /\ n <= Len(remaining_bytes(taken[1]))
    /\ IF n = 0
       THEN /\ writing' = taken
            /\ taken' = None
            /\ NextEvent
            /\ UNCHANGED <<write_list, ptyIn>>
       ELSE LET cur == advance(taken[1], n) IN
            /\ ptyIn' = ptyIn \o SubSeq(remaining_bytes(taken[1]), 1, n)
            /\ IF finished(cur)
               THEN LET g == goto_next(write_list) IN
                    /\ taken' = g[1]
                    /\ writing' = None
                    /\ write_list' = g[2]
                    /\ IF g[1] = None
                       THEN NextEvent
                       ELSE UNCHANGED <<pc, events>>
               ELSE /\ taken' = Some(cur)
                    /\ UNCHANGED <<writing, write_list, pc, events>>
    /\ lastStep' = "write_ok"
    /\ UNCHANGED <<cmVars, sizeVars, parserVars, readVars, lockVars, chanVars, registered, pty_interest,
                   enqueued, wakeup, readResult, exitCause>>

\* Mutation of pty_write_err: the chunk is not put back.
pty_write_err_drop_chunk(kind) ==
    /\ pc = "write"
    /\ writing' = None
    /\ taken' = None
    /\ IF kind = "other"
       THEN pc' = "exit" /\ exitCause' = "write_error" /\ UNCHANGED events
       ELSE NextEvent /\ UNCHANGED exitCause
    /\ lastStep' = "write_err"
    /\ UNCHANGED <<cmVars, sizeVars, write_list, parserVars, readVars, lockVars, chanVars,
                   registered, pty_interest, ptyIn, enqueued, wakeup, readResult>>

\* write fails: the chunk is put back; WouldBlock and Interrupted end the
\* cycle with Ok, any other error ("other") is returned and ends 'event_loop.
pty_write_err(kind) ==
    /\ pc = "write"
    /\ writing' = taken
    /\ taken' = None
    /\ IF kind = "other"
       THEN pc' = "exit" /\ exitCause' = "write_error" /\ UNCHANGED events
       ELSE NextEvent /\ UNCHANGED exitCause
    /\ lastStep' = "write_err"
    /\ UNCHANGED <<cmVars, sizeVars, write_list, parserVars, readVars, lockVars, chanVars,
                   registered, pty_interest, ptyIn, enqueued, wakeup, readResult>>

\* ------------------------------------------------------------ specification

MachineInit == start(DEFAULT_CONTEXT_CAPACITY) /\ Machine_new

\* The steps of the loop that neither the read cycle nor the write cycle owns.
LoopNext ==
    \/ poll
    \/ poll_error
    \/ handle_read_closed
    \/ handle_pipe_send
    \/ handle_child_event
    \/ handle_pty_event
    \/ handle_other
    \/ end_of_events
    \/ exit_loop
    \/ \E kind \in {"ok0", "would_block", "interrupted"} : pty_read_nothing(kind)
    \/ \E kind \in {"eio", "other"} : pty_read_err(kind)
    \/ pty_read_finish
    \/ pty_write_enter

\* The steps that need the child to write to the pty: bytes arrive, the UI
\* competes for the terminal, the parser may run a synchronized update.
ReadNext ==
    \/ ui_lock
    \/ ui_unlock
    \/ poll_timeout
    \/ \E got \in 1 .. READ_BUFFER_SIZE : pty_read_ok(got)
    \/ pty_read_lock
    \/ pty_read_lock_unfair

\* The steps that need messages on the inbound channel.
WriteNext ==
    \/ \E n \in 0 .. MaxInput : send_input(n)
    \/ send_resize
    \/ send_shutdown
    \/ \E n \in 0 .. MaxInput : pty_write_ok(n)
    \/ \E kind \in {"would_block", "interrupted", "other"} : pty_write_err(kind)

\* The event loop while nothing is sent on the inbound channel: the read side.
\* pty_read and the steps around it neither read nor write the sink or the
\* channel.
ReadSpec == MachineInit /\ [][LoopNext \/ ReadNext]_vars

\* The event loop while the child writes nothing: the write side.  The drain
\* and pty_write neither read nor write the read buffer, the parser or the
\* terminal lock.
WriteSpec == MachineInit /\ [][LoopNext \/ WriteNext]_vars

\* The event loop with both.
MachineNext == LoopNext \/ ReadNext \/ WriteNext

MachineSpec == MachineInit /\ [][MachineNext]_vars

\* ------------------------------------------------------------------- claims

\* The ids of the contexts in a list.
Ids(ctxs) == {ctxs[i] : i \in 1 .. Len(ctxs)}

\* The last element of a non-empty list.
Last(ctxs) == ctxs[Len(ctxs)]

\* ctxs without every element equal to id, order kept.
Without(ctxs, id) == SelectSeq(ctxs, LAMBDA c : c # id)

\* C1: in every reachable state the number of contexts is at most capacity.
C1_LenAtMostCapacity == len(contexts) <= capacity

\* An add_context call made with the list exactly at capacity.
C1_Witness ==
    /\ lastOp.op = "add_context"
    /\ Len(pre.contexts) = pre.capacity
    /\ Len(contexts) = capacity

\* C2: after any sequence of add_context and close_context calls, current_id
\* is the id of some context in the list.
C2_CurrentNamesAContext == current_id \in Ids(contexts)

\* C3: every id add_context assigns is strictly greater than every id assigned
\* before it, so no id is ever given out twice.
C3_IdsNeverReused ==
    (lastOp.op = "add_context" /\ Len(contexts) = Len(pre.contexts) + 1)
        => \A old \in pre.assigned : Last(contexts) > old

\* C4: current() and current_mut() return the context whose id is current_id;
\* they never return another context and never index out of bounds.
C4_CurrentReturnsCurrentId ==
    lastOp.op \in {"current", "current_mut"}
        => (~panicked /\ ret = Some(pre.current))

\* C5: the list always has at least one context, and close_context called
\* with len <= 1 leaves the list unchanged.
C5_LastContextNeverRemoved ==
    /\ Len(contexts) >= 1
    /\ (lastOp.op = "close_context" /\ Len(pre.contexts) <= 1)
          => contexts = pre.contexts

\* close_context called on the id of the only context.
C5_Witness ==
    /\ lastOp.op = "close_context"
    /\ Len(pre.contexts) = 1
    /\ lastOp.id = pre.contexts[1]
    /\ contexts = pre.contexts

\* C6: close_context called when exactly one context remains sets current_id
\* to 0, whatever the surviving id and whatever id is passed.
C6_CloseLastResetsCurrentToZero ==
    (lastOp.op = "close_context" /\ Len(pre.contexts) = 1)
        => (current = 0 /\ Len(contexts) = 1)

\* With only context 4 left and current, close_context(4) was called.
C6_Witness ==
    /\ lastOp = Op("close_context", 4, FALSE, TRUE)
    /\ pre.contexts = <<4>>
    /\ pre.current = 4
    /\ contexts = <<4>>
    /\ current = 0

\* C7: close_context(id) with len > 1 and id present removes exactly that
\* context, keeps the order of the others, makes contains(id) false, and sets
\* current_id to the id of the last context, whether or not id was current.
C7_CloseRemovesAndSelectsLast ==
    (/\ lastOp.op = "close_context"
     /\ Len(pre.contexts) > 1
     /\ lastOp.id \in Ids(pre.contexts))
        => /\ Len(contexts) = Len(pre.contexts) - 1
           /\ contexts = Without(pre.contexts, lastOp.id)
           /\ ~contains(contexts, lastOp.id)
           /\ current = Last(contexts)

\* A context that was neither current nor last was closed, and current moved.
C7_Witness ==
    /\ lastOp.op = "close_context"
    /\ Len(pre.contexts) > 2
    /\ lastOp.id \in Ids(pre.contexts)
    /\ lastOp.id # pre.current
    /\ lastOp.id # Last(pre.contexts)
    /\ pre.current # Last(pre.contexts)
    /\ current = Last(contexts)

\* C8: add_context called with len >= capacity changes neither the list, nor
\* current_id, nor capacity, for either value of redirect.
C8_AddAtCapacityHasNoEffect ==
    (lastOp.op = "add_context" /\ Len(pre.contexts) >= pre.capacity)
        => /\ contexts = pre.contexts
           /\ current = pre.current
           /\ capacity = pre.capacity

\* add_context(redirect = true) was called on a full manager.
C8_Witness ==
    /\ lastOp.op = "add_context"
    /\ lastOp.redirect
    /\ lastOp.ok
    /\ Len(pre.contexts) >= pre.capacity
    /\ Len(pre.contexts) > 1

\* C9: add_context called with len < capacity, creation succeeding, appends
\* exactly one context with id = (previous last id) + 1; current_id becomes the
\* new id if redirect, and is unchanged otherwise.
C9_AddAppendsLastIdPlusOne ==
    (/\ lastOp.op = "add_context"
     /\ lastOp.ok
     /\ Len(pre.contexts) < pre.capacity)
        => /\ contexts = Append(pre.contexts, Last(pre.contexts) + 1)
           /\ current = IF lastOp.redirect
                        THEN Last(pre.contexts) + 1
                        ELSE pre.current

\* A context was added, without redirect, to a list whose ids no longer
\* start at 0 (so that last id + 1 differs from the length).
C9_Witness ==
    /\ lastOp.op = "add_context"
    /\ lastOp.ok
    /\ ~lastOp.redirect
    /\ Len(pre.contexts) < pre.capacity
    /\ Last(pre.contexts) + 1 # Len(pre.contexts)
    /\ Len(contexts) = Len(pre.contexts) + 1
    /\ current = pre.current

\* C10: set_current(id) sets current_id to id when a context has that id, and
\* leaves current_id and the list unchanged when none has, including the ids
\* of contexts closed earlier.
C10_SetCurrent ==
    lastOp.op = "set_current"
        => /\ contexts = pre.contexts
           /\ current = IF lastOp.id \in Ids(pre.contexts)
                        THEN lastOp.id
                        ELSE pre.current

\* set_current was called with the id of a context closed earlier.
C10_Witness ==
    /\ lastOp.op = "set_current"
    /\ lastOp.id \in pre.assigned
    /\ lastOp.id \notin Ids(pre.contexts)
    /\ lastOp.id # pre.current
    /\ current = pre.current

\* The 1-based place of id in ctxs (ids are distinct in every reachable list).
Place(ctxs, id) == CHOOSE i \in 1 .. Len(ctxs) : ctxs[i] = id

\* C11: switch_to_next sets current_id to the id of the context right after
\* the current one, and to the first context's id when the current one is
\* last; with contexts [0,1,2] the ids visited from 0 are 1, 2, 0, 1.
C11_SwitchToNext ==
    (lastOp.op = "switch_to_next" /\ pre.current \in Ids(pre.contexts))
        => /\ contexts = pre.contexts
           /\ current = contexts[(Place(contexts, pre.current) % Len(contexts)) + 1]
           /\ (contexts = <<0, 1, 2>>
                 => current = (IF pre.current = 2 THEN 0 ELSE pre.current + 1))

\* switch_to_next wrapped from the last of [0,1,2] to the first.
C11_Witness ==
    /\ lastOp.op = "switch_to_next"
    /\ pre.contexts = <<0, 1, 2>>
    /\ pre.current = 2
    /\ current = 0

\* C12: a ContextManager returned by start (or start_with_capacity) holds
\* exactly one context, with id 0, and current_id = 0.
C12_StartHasContextZero ==
    lastOp.op = "start"
        => (len(contexts) = 1 /\ contexts[1] = 0 /\ current_id = 0)

\* The manager as start (capacity DEFAULT_CONTEXT_CAPACITY) returns it.
C12_Witness ==
    /\ lastOp.op = "start"
    /\ capacity = DEFAULT_CONTEXT_CAPACITY
    /\ Len(contexts) = 1

\* C13: when create_context fails inside add_context (len < capacity), the
\* list, current_id and capacity are unchanged, even if redirect is true.
C13_FailedCreateHasNoEffect ==
    (/\ lastOp.op = "add_context"
     /\ ~lastOp.ok
     /\ Len(pre.contexts) < pre.capacity)
        => /\ contexts = pre.contexts
           /\ current = pre.current
           /\ capacity = pre.capacity

\* add_context(redirect = true) was called below capacity and creation failed.
C13_Witness ==
    /\ lastOp.op = "add_context"
    /\ ~lastOp.ok
    /\ lastOp.redirect
    /\ Len(pre.contexts) < pre.capacity
    /\ contexts = pre.contexts

\* ------------------------------------------------------- claims on the loop

\* a is an initial part of b.
IsPrefix(a, b) == Len(a) <= Len(b) /\ SubSeq(b, 1, Len(a)) = a

\* C14: the bytes handed to parser.advance are bytes the pty reads returned
\* (readLog numbers them in read order), in that order and none of them twice,
\* whatever number of pty_read cycles has run.
C14_ParsedInPtyOrder ==
    /\ \A i \in 1 .. Len(parsed) : parsed[i] \in 1 .. Len(readLog)
    /\ \A i, j \in 1 .. Len(parsed) : i < j => parsed[i] < parsed[j]

\* A second pty_read cycle has parsed the last bytes after a first cycle parsed
\* the earlier ones, and goes on reading with the terminal still locked.
C14_Witness ==
    /\ pc = "read"
    /\ terminal_lock = "loop"
    /\ processed > 0
    /\ processed < Len(parsed)
    /\ Len(parsed) = MaxBytes

\* C15: outside a pty_read cycle, and while the loop is not leaving on an
\* error, every byte a pty read returned has been handed to parser.advance.
C15_NoReadByteDropped ==
    pc \in {"poll", "dispatch", "writable"} => parsed = readLog

\* C16: what was written to the pty is an initial part of the Input bytes in
\* the order they were put on write_list, which is the order they were sent in
\* (senders number their bytes 1, 2, ...).
C16_WrittenIsPrefixOfEnqueued ==
    /\ IsPrefix(ptyIn, enqueued)
    /\ enqueued = [i \in 1 .. Len(enqueued) |-> i]

\* A chunk was written in part and put back by a write that returned Ok(0),
\* WouldBlock or Interrupted; a later pty_write call has to finish it.
C16_Witness ==
    /\ pc = "dispatch"
    /\ writing # None
    /\ writing[1].written > 0
    /\ writing[1].written < Len(writing[1].source)
    /\ Len(ptyIn) = writing[1].written

\* C17: when the loop has finished shutting down after a Shutdown message,
\* every byte of the Input messages it accepted before has been written to the
\* pty.
C17_InputWrittenBeforeShutdown ==
    (pc = "done" /\ exitCause = "shutdown") => ptyIn = enqueued

\* C18: the drain that receives a Shutdown message sends the loop to its exit
\* path, and from then on the loop neither polls nor takes up another event,
\* nor reads from or writes to the pty.
C18_ShutdownExits ==
    [][/\ ((\E i \in 1 .. Len(channel) : channel[i].type = "Shutdown")
             /\ Len(channel') < Len(channel))
            => (pc' = "exit" /\ exitCause' = "shutdown")
       /\ exitCause = "shutdown"
            => /\ pc' \in {"exit", "done"}
               /\ events' = events
               /\ ptyIn' = ptyIn
               /\ readLog' = readLog]_vars

\* The loop has returned after a Shutdown that came with events behind it in
\* the same batch.
C18_Witness ==
    /\ pc = "done"
    /\ exitCause = "shutdown"
    /\ Len(events) > 1

\* C19: once the child-exit arm has run pty_read and sent Wakeup, the loop is
\* on its exit path.
C19_ChildExitExits ==
    lastStep = "child_done" => (wakeup >= 1 /\ pc \in {"exit", "done"})

\* C20: a pty read that fails with EIO in the pty arm leaves the loop running:
\* it goes on with the next event, with no exit cause and the sink as it was.
C20_EioKeepsLoopAndSink ==
    [][(pc = "read" /\ lastStep' = "eio")
          => /\ pc' = "dispatch"
             /\ events' = Tail(events)
             /\ exitCause' = "none"
             /\ write_list' = write_list
             /\ writing' = writing]_vars

\* A read failed with EIO while Input was waiting in the sink; the loop is
\* back at its events.
C20_Witness ==
    /\ lastStep = "eio"
    /\ pc = "dispatch"
    /\ exitCause = "none"
    /\ write_list # <<>>

\* C21: a pty read that fails with an error other than WouldBlock, Interrupted
\* or EIO puts the loop on its exit path, and so does such a pty write error,
\* after the chunk in flight was put back.
C21_FatalIoErrorsExit ==
    /\ readResult = "other" => (pc \in {"exit", "done"} /\ exitCause = "read_error")
    /\ lastStep = "write_err" =>
          /\ writing # None
          /\ pc = "exit" <=> exitCause = "write_error"

\* C22: once the loop has returned, whatever made it leave, neither the pty
\* nor the inbound pipe is registered with the poller; both were until then.
C22_ExitDeregisters ==
    IF pc = "done"
    THEN registered \cap {"pty", "mio_receiver"} = {}
    ELSE {"pty", "mio_receiver"} \subseteq registered

\* The loop has returned after a fatal write error, with the chunk put back.
C22_Witness ==
    /\ pc = "done"
    /\ exitCause = "write_error"
    /\ writing # None

\* C23: a read_closed event on the inbound pipe's token puts the loop on its
\* exit path.
C23_ReadClosedExits ==
    lastStep = "read_closed" => (pc = "exit" /\ exitCause = "read_closed")

\* The peer was dropped with events behind it in the batch and Input still
\* in the sink; the loop is leaving.
C23_Witness ==
    /\ lastStep = "read_closed"
    /\ pc = "exit"
    /\ Len(events) > 1
    /\ write_list # <<>>

\* The drain is about to take message i: no Shutdown stands before it.
Received(i) ==
    /\ i \in 1 .. Len(channel)
    /\ \A j \in 1 .. (i - 1) : channel[j].type # "Shutdown"

\* C24: the drain that takes a Resize message gives its dimensions to the
\* grid and to the pty, and leaves the chunk in flight as it was.
C24_ResizeApplied ==
    [][(/\ Len(channel') < Len(channel)
        /\ \E i \in 1 .. Len(channel) :
              Received(i) /\ channel[i].type = "Resize")
          => /\ grid_size' = RequestedSize
             /\ pty_size' = RequestedSize
             /\ writing' = writing]_vars

\* C25: once a Shutdown has been processed, no step, the sending of another
\* Shutdown included, brings the loop back, takes a message from the channel,
\* or touches the sink, the grid or the pty.
C25_ShutdownIdempotent ==
    [][exitCause = "shutdown"
          => /\ exitCause' = "shutdown"
             /\ pc' \in {"exit", "done"}
             /\ IsPrefix(channel, channel')
             /\ sinkVars' = sinkVars
             /\ sizeVars' = sizeVars
             /\ parsed' = parsed
             /\ ptyIn' = ptyIn]_vars

\* The loop has returned after a Shutdown, and a second Shutdown is on the
\* channel, never to be received.
C25_Witness ==
    /\ pc = "done"
    /\ exitCause = "shutdown"
    /\ channel # <<>>
    /\ Head(channel).type = "Shutdown"

\* C26: after poll returned with no events, the synchronized update has been
\* stopped (no deadline is left, so no second timeout follows), one Wakeup was
\* sent, the terminal is not left locked by the loop, and the loop polls again.
C26_SyncTimeoutStopsSync ==
    lastStep = "poll_timeout"
        => /\ pc = "poll"
           /\ wakeup = 1
           /\ ~sync_timeout
           /\ sync_bytes = 0
           /\ terminal_lock # "loop"

\* The deadline of a synchronized update that pty output began has expired.
C26_Witness ==
    /\ lastStep = "poll_timeout"
    /\ parsed # <<>>
    /\ parsed = readLog

C29_GridMutationUnderLock ==
    [][(parsed' # parsed \/ sync_timeout' # sync_timeout
           \/ sync_bytes' # sync_bytes \/ grid_size' # grid_size)
          => /\ terminal_lock # "ui"
             /\ parsed' # parsed => terminal_lock' = "loop"]_vars

\* The buffer filled up while the UI held the terminal; the loop waited in
\* lock_unfair and has parsed the whole buffer.
C29_Witness ==
    /\ lastStep = "lock_unfair"
    /\ terminal_lock = "loop"
    /\ processed = READ_BUFFER_SIZE

\* C30: never more than READ_BUFFER_SIZE bytes are unprocessed; a failed
\* try-lock sends the cycle back to read, or into lock_unfair when the buffer
\* is full, without parsing; nothing is read while the cycle blocks; and the
\* unprocessed bytes, which are the last ones read, leave the buffer only by
\* going to the parser, unless the loop is leaving on an error.
C30_Backpressure ==
    [][/\ unprocessed <= READ_BUFFER_SIZE
       /\ (pc = "lock" /\ terminal_lock = "ui" /\ pc' # pc)
             => /\ parsed' = parsed
                /\ readLog' = readLog
                /\ pc' = IF unprocessed >= READ_BUFFER_SIZE
                         THEN "lock_unfair" ELSE "read"
       /\ pc = "lock_unfair" => readLog' = readLog
       /\ (unprocessed' < unprocessed /\ pc' # "exit")
             => parsed' = parsed \o SubSeq(readLog, Len(readLog) - unprocessed + 1,
                                          Len(readLog))]_vars

\* ------------------------------------------- more claims on ContextManager

\* C38: the ids in the list grow strictly with the position, so no two
\* contexts share an id, and contains and position find at most one context.
C38_IdsStrictlyIncreasing ==
    /\ \A i, j \in 1 .. Len(contexts) : i < j => contexts[i] < contexts[j]
    /\ \A id \in ContextIds :
          /\ Cardinality({i \in 1 .. Len(contexts) : contexts[i] = id}) <= 1
          /\ contains(contexts, id) <=> position(contexts, id) # None

\* A list that has lost its first and a middle context and got a new one at
\* the tail.
C38_Witness ==
    /\ Len(contexts) >= 3
    /\ contexts[1] > 0
    /\ contexts[2] > contexts[1] + 1
    /\ lastOp.op = "add_context"
    /\ Len(contexts) = Len(pre.contexts) + 1

\* C39: close_context with more than one context in the list and an id that no
\* context has leaves the list and current_id as they were.
C39_CloseUnknownIdHasNoEffect ==
    (/\ lastOp.op = "close_context"
     /\ Len(pre.contexts) > 1
     /\ lastOp.id \notin Ids(pre.contexts))
        => /\ contexts = pre.contexts
           /\ current = pre.current
           /\ capacity = pre.capacity

\* close_context was called with an id the list does not have, while the
\* current context was not the last one.
C39_Witness ==
    /\ lastOp.op = "close_context"
    /\ Len(pre.contexts) > 1
    /\ lastOp.id \notin Ids(pre.contexts)
    /\ pre.current \in Ids(pre.contexts)
    /\ pre.current # Last(pre.contexts)
    /\ current = pre.current

\* current_id after n calls of switch_to_next in a row.
RECURSIVE SwitchedTimes(_, _, _)
SwitchedTimes(ctxs, cur, n) ==
    IF n = 0 THEN cur
    ELSE switch_to_next_id(ctxs, SwitchedTimes(ctxs, cur, n - 1))

\* C40: switch_to_next leaves the list and the capacity alone and leaves
\* current_id naming a context; and in every state, len calls in a row visit
\* every context exactly once and end on the current_id they started from.
C40_SwitchToNextVisitsAll ==
    /\ lastOp.op = "switch_to_next"
          => /\ contexts = pre.contexts
             /\ capacity = pre.capacity
             /\ current = switch_to_next_id(pre.contexts, pre.current)
             /\ current \in Ids(contexts)
    /\ {SwitchedTimes(contexts, current, n) : n \in 1 .. Len(contexts)}
          = Ids(contexts)
    /\ SwitchedTimes(contexts, current, Len(contexts)) = current

\* C31: after each poll iteration that handled events, the pty is registered
\* with READ, and with WRITE exactly when needs_write() is true.
C31_InterestFollowsNeedsWrite ==
    lastStep = "end_of_events"
        => /\ "READ" \in pty_interest
           /\ ("WRITE" \in pty_interest) <=> needs_write

\* The bytes of the Input messages of ch, in channel order.
InputChunks(ch) ==
    [i \in 1 .. Len(SelectSeq(ch, LAMBDA m : m.type = "Input")) |->
        SelectSeq(ch, LAMBDA m : m.type = "Input")[i].bytes]

\* C32: a drain receives every message that was in the channel at the wake:
\* the channel is empty when it returns and every Input chunk was appended to
\* the tail of the sink in channel order.
C32_DrainUntilEmpty ==
    [][Len(channel') < Len(channel)
          => /\ channel' = <<>>
             /\ write_list' = write_list \o InputChunks(channel)]_vars

\* C33: a pty_read cycle that returns Ok sends Wakeup if and only if
\* processed > 0 and sync_bytes_count() < processed (the child-event arm then
\* sends one more of its own).
C33_WakeupIffUnsynchronizedBytes ==
    [][(pc = "read_done" /\ pc' # pc)
          => wakeup' - wakeup
                = (IF processed > 0 /\ sync_bytes < processed THEN 1 ELSE 0)
                  + (IF Head(events).token = child_event_token THEN 1 ELSE 0)]_vars

C33_Witness ==
    /\ pc = "read_done"
    /\ Head(events).token # child_event_token
    /\ processed > 0
    /\ sync_bytes >= processed
    /\ parsed = readLog
    /\ wakeup = 0

\* C34: a pty_read cycle ends with Ok only after a read that gave nothing with
\* nothing unprocessed, or with processed >= MAX_LOCKED_READ; whenever a
\* cycle terminates, unprocessed is 0 and the loop no longer holds the grid
\* lock.
C34_CycleEndsCaughtUp ==
    [][/\ pc = "read_done"
          => /\ unprocessed = 0
             /\ \/ processed >= MAX_LOCKED_READ
                \/ lastStep \in {"ok0", "would_block", "interrupted"}
       /\ (lease /\ ~lease')
          => /\ unprocessed = 0
             /\ terminal_lock' # "loop"]_vars

\* C35: whenever pty_write has returned, the in-flight chunk is the oldest
\* unwritten chunk and is not complete, whatever its length.
C35_InFlightChunkIncomplete ==
    (pc # "write" /\ lastStep \in {"write_enter", "write_ok", "write_err"})
        => /\ taken = None
           /\ writing # None => ~finished(writing[1])
           /\ enqueued = ptyIn \o (IF writing # None
                                   THEN remaining_bytes(writing[1]) ELSE <<>>)
                               \o Flatten(write_list)

\* C36: when write returns Ok(0), WouldBlock or Interrupted, pty_write puts
\* the chunk back with its written offset unchanged, leaves the queue as it
\* was, and the loop goes on with the next event.
C36_PutBackKeepsChunk ==
    [][(pc = "write" /\ pc' \notin {"write", "exit"} /\ ptyIn' = ptyIn)
          => /\ writing' = taken
             /\ taken' = None
             /\ write_list' = write_list
             /\ enqueued' = enqueued
             /\ pc' = "dispatch"
             /\ events' = Tail(events)
             /\ exitCause' = "none"]_vars

C36_Witness ==
    /\ lastStep = "write_err"
    /\ pc = "dispatch"
    /\ exitCause = "none"
    /\ writing # None
    /\ writing[1].written > 0
    /\ ~finished(writing[1])
    /\ write_list # <<>>

\* C37: when a write has returned Ok and pty_write is over, needs_write() is
\* false if all enqueued bytes have been written and true otherwise.
C37_NeedsWriteUntilWritten ==
    (lastStep = "write_ok" /\ pc = "dispatch")
        => (needs_write <=> ptyIn # enqueued)

=============================================================================
